---------------------------- MODULE Spec2Model ----------------------------
(***************************************************************************)
(* The request-orchestration pipeline of the Principia backend             *)
(* (src/app.py): the three POST handlers analyze, convert_format and ocr,  *)
(* each run by its own worker, with the remote model behind                *)
(* client.chat.completions.create as the environment.                      *)
(*                                                                         *)
(* Text is a sequence of characters (one-character strings).  The fixed    *)
(* parts of a prompt template are single elements naming the source lines  *)
(* they stand for; caller text and completions are spelled out character   *)
(* by character (the backtick as the element Backtick), so that prefix,    *)
(* suffix, split and strip are computed as Python computes them.           *)
(***************************************************************************)
EXTENDS Naturals, Sequences, FiniteSets, TLC

VARIABLES
    request,    \* request[r]: the route and JSON body of request r
    pc,         \* pc[r]: where r's handler stands
    explanation,\* explanation[r]: analyze's local explanation
    calls,      \* calls[r]: the chat.completions.create calls r has issued
    replies,    \* replies[r]: what the remote model answered to them
    response    \* response[r]: the (status, json) pair the handler returned

vars == <<request, pc, explanation, calls, replies, response>>

----------------------------------------------------------------------------
(* Bounds                                                                  *)

\* Number of requests handled concurrently.
NumReq == 2
\* Longest completion, in segments, the model checker feeds the cleanups.
MaxSegs == 5

\* max_tokens of the ocr call.
MaxTokens == 2000

Requests == 1..NumReq

----------------------------------------------------------------------------
(* Python values                                                           *)

\* Python's None, where a dict lookup finds nothing.
None == "<None>"

\* The empty dict {}.
EmptyDict == [k \in {} |-> ""]

\* d.get(k, default)
Get(d, k, default) == IF k \in DOMAIN d THEN d[k] ELSE default

\* Truth value of a str taken from a config dict (None and '' are false).
Truthy(v) == v # None /\ v # ""

\* str.startswith
StartsWith(s, p) == Len(s) >= Len(p) /\ SubSeq(s, 1, Len(p)) = p

\* str.endswith
EndsWith(s, p) == Len(s) >= Len(p) /\ SubSeq(s, Len(s) - Len(p) + 1, Len(s)) = p

\* s[n:]
DropFirst(s, n) == SubSeq(s, n + 1, Len(s))

\* s[:-n]
DropLast(s, n) == IF Len(s) >= n THEN SubSeq(s, 1, Len(s) - n) ELSE <<>>

\* The characters str.strip() removes.
Whitespace == {" ", "\n", "\t", "\r"}

RECURSIVE LStrip(_)
LStrip(s) ==
    IF s # <<>> /\ Head(s) \in Whitespace THEN LStrip(Tail(s)) ELSE s

RECURSIVE RStrip(_)
RStrip(s) ==
    IF s # <<>> /\ s[Len(s)] \in Whitespace
    THEN RStrip(SubSeq(s, 1, Len(s) - 1))
    ELSE s

\* A mutant of Strip: only the left side is trimmed.
StripLeftOnly(s) == LStrip(s)

\* str.strip()
Strip(s) == RStrip(LStrip(s))

\* sub in s
Contains(s, sub) ==
    \E i \in 0..(Len(s) - Len(sub)) : SubSeq(s, i + 1, i + Len(sub)) = sub

\* Index of the first occurrence of sub in s (0: none), as str.find + 1.
Find(s, sub) ==
    IF Contains(s, sub)
    THEN CHOOSE i \in 1..(Len(s) - Len(sub) + 1) :
            /\ SubSeq(s, i, i + Len(sub) - 1) = sub
            /\ \A j \in 1..(i - 1) : SubSeq(s, j, j + Len(sub) - 1) # sub
    ELSE 0

\* s.split('\n', 1): one element without a newline, else two.
SplitNewlineOnce(s) ==
    LET i == Find(s, <<"\n">>) IN
    IF i = 0 THEN <<s>>
    ELSE <<SubSeq(s, 1, i - 1), SubSeq(s, i + 1, Len(s))>>

----------------------------------------------------------------------------
(* Fence markers                                                           *)

\* The backtick character (the lexer of TLA+ admits none in a string).
Backtick == "<backtick>"

Fence == <<Backtick, Backtick, Backtick>>
FenceHtml == Fence \o <<"h", "t", "m", "l">>
FenceLatex == Fence \o <<"l", "a", "t", "e", "x">>
FenceMarkdown == Fence \o <<"m", "a", "r", "k", "d", "o", "w", "n">>

----------------------------------------------------------------------------
(* Cleanups.  Each gives [raised, text]: raised is the exception the       *)
(* statement throws ("" when none), text the cleaned payload.              *)

Cleaned(t) == [raised |-> "", text |-> t]
Raised(e) == [raised |-> e, text |-> <<>>]

\* analyze: visualization = content.strip(), then the three ifs.
analyze_cleanup(content) ==
    LET v0 == Strip(content)
        v1 == IF StartsWith(v0, FenceHtml) THEN DropFirst(v0, 7) ELSE v0
        v2 == IF StartsWith(v1, Fence) THEN DropFirst(v1, 3) ELSE v1
        v3 == IF EndsWith(v2, Fence) THEN DropLast(v2, 3) ELSE v2
    IN  Cleaned(v3)

\* convert_format: converted = content.strip(), the three ifs, .strip().
convert_cleanup(content) ==
    LET v0 == Strip(content)
        tagged == StartsWith(v0, FenceLatex) \/ StartsWith(v0, FenceMarkdown)
        parts == SplitNewlineOnce(v0)
    IN  IF tagged /\ Len(parts) < 2
        THEN Raised("list index out of range")
        ELSE LET v1 == IF tagged THEN parts[2] ELSE v0
                 v2 == IF StartsWith(v1, Fence) THEN DropFirst(v1, 3) ELSE v1
                 v3 == IF EndsWith(v2, Fence) THEN DropLast(v2, 3) ELSE v2
             IN  Cleaned(Strip(v3))

\* ocr: latex_code = content.strip(), the three ifs, .strip().
ocr_cleanup(content) ==
    LET v0 == Strip(content)
        v1 == IF StartsWith(v0, FenceLatex) THEN DropFirst(v0, 8) ELSE v0
        v2 == IF StartsWith(v1, Fence) THEN DropFirst(v1, 3) ELSE v1
        v3 == IF EndsWith(v2, Fence) THEN DropLast(v2, 3) ELSE v2
    IN  Cleaned(Strip(v3))

----------------------------------------------------------------------------
(* What a handler does next: return a response, or call the model.         *)

\* return jsonify(json), status
Respond(status, json) == [kind |-> "respond", status |-> status, json |-> json]

\* OpenAI(api_key=config.get('apiKey'), base_url=config.get('baseUrl'))
OpenAI(config) ==
    [api_key |-> Get(config, "apiKey", None),
     base_url |-> Get(config, "baseUrl", None)]

\* client.chat.completions.create(model=..., messages=...)
Create(client, model, messages) ==
    [kind |-> "create",
     call |-> [api_key |-> client.api_key, base_url |-> client.base_url,
               model |-> model, messages |-> messages]]

\* A mutant of ExceptHandler: the status is left out of the return.
ExceptHandlerNoStatus(e) == Respond(200, [error |-> e])

\* except Exception as e: return jsonify({'error': str(e)}), 500
ExceptHandler(e) == Respond(500, [error |-> e])

\* config and config.get('apiKey')
Configured(config) ==
    DOMAIN config # {} /\ Truthy(Get(config, "apiKey", None))

----------------------------------------------------------------------------
(* Prompt composition                                                      *)

\* f"""... Target Formula/Concept: "{context}" ... "{full_context}" ..."""
explanation_prompt(context, full_context) ==
    <<"[explanation_prompt 41-44]">> \o context
        \o <<"[explanation_prompt 44-47]">> \o full_context
        \o <<"[explanation_prompt 47-59]">>

\* A mutant of viz_prompt: the target concept stands where the explanation
\* belongs.
viz_prompt_no_chain(context, expl, full_context) ==
    <<"[viz_prompt 83-89]">> \o context
        \o <<"[viz_prompt 89-91]">> \o context
        \o <<"[viz_prompt 91-93]">> \o full_context
        \o <<"[viz_prompt 93-126]">>

\* f"""... "{context}" ... "{explanation}" ... "{full_context}" ..."""
viz_prompt(context, expl, full_context) ==
    <<"[viz_prompt 83-89]">> \o context
        \o <<"[viz_prompt 89-91]">> \o expl
        \o <<"[viz_prompt 91-93]">> \o full_context
        \o <<"[viz_prompt 93-126]">>

\* The two templates of convert_format, chosen by target_format == 'tex'.
convert_prompt(target_format, content) ==
    IF target_format = "tex"
    THEN <<"[prompt tex 179-195]">> \o content \o <<"[prompt tex 195-196]">>
    ELSE <<"[prompt md 198-216]">> \o content \o <<"[prompt md 216-217]">>

\* The fixed head of ocr's system_prompt.
system_prompt_base == <<"[system_prompt 266-280]">>

\* The block line 283 appends.
previous_block(previous_context) ==
    <<"[PREVIOUS CONTEXT (The text immediately preceding this image):...]">>
        \o previous_context
        \o <<"[INSTRUCTION: flows naturally from this previous context.]">>

\* The block line 286 appends.
next_block(next_context) ==
    <<"[NEXT CONTEXT (The text immediately following this image):]">>
        \o next_context
        \o <<"[...INSTRUCTION: connects smoothly to this next context.]">>

\* A mutant of system_prompt: the previous-context block is always appended.
system_prompt_always_previous(previous_context, next_context) ==
    system_prompt_base
        \o previous_block(previous_context)
        \o (IF next_context # <<>> THEN next_block(next_context) ELSE <<>>)

\* ocr's system_prompt after the two conditional +=.
system_prompt(previous_context, next_context) ==
    system_prompt_base
        \o (IF previous_context # <<>>
            THEN previous_block(previous_context) ELSE <<>>)
        \o (IF next_context # <<>> THEN next_block(next_context) ELSE <<>>)

----------------------------------------------------------------------------
(* The handlers, cut where they wait for the model.  reply is what         *)
(* create() gave: [raised, content], raised the exception it threw ("" when *)
(* it returned), content the completion's message.content.                 *)

\* A mutant of analyze_begin: the client is resolved before the context is
\* looked at.
analyze_begin_config_first(data) ==
    LET context == Get(data, "context", <<>>)
        full_context == Get(data, "fullContext", <<>>)
        reasoning_config == Get(data, "reasoningConfig", EmptyDict)
    IN  IF ~Configured(reasoning_config)
        THEN Respond(401, [error |-> "Reasoning API configuration missing. Please configure settings."])
        ELSE IF context = <<>>
        THEN Respond(400, [error |-> "No context provided"])
        ELSE Create(OpenAI(reasoning_config),
                    Get(reasoning_config, "model", None),
                    <<[role |-> "system", content |-> <<"You are a helpful physics tutor.">>],
                      [role |-> "user", content |-> explanation_prompt(context, full_context)]>>)

\* analyze, from its entry to the explanation call.
analyze_begin(data) ==
    LET context == Get(data, "context", <<>>)
        full_context == Get(data, "fullContext", <<>>)
        reasoning_config == Get(data, "reasoningConfig", EmptyDict)
    IN  IF context = <<>>
        THEN Respond(400, [error |-> "No context provided"])
        ELSE IF Configured(reasoning_config)
        THEN Create(OpenAI(reasoning_config),
                    Get(reasoning_config, "model", None),
                    <<[role |-> "system", content |-> <<"You are a helpful physics tutor.">>],
                      [role |-> "user", content |-> explanation_prompt(context, full_context)]>>)
        ELSE Respond(401, [error |-> "Reasoning API configuration missing. Please configure settings."])

\* The config block the visualization stage resolves its client from.
viz_config(data) == Get(data, "visionConfig", EmptyDict)

\* analyze, from the explanation call's return to the visualization call.
analyze_explained(data, reply) ==
    LET context == Get(data, "context", <<>>)
        full_context == Get(data, "fullContext", <<>>)
        vision_config == viz_config(data)
        expl == Strip(reply.content)
    IN  IF reply.raised # ""
        THEN ExceptHandler(reply.raised)
        ELSE IF Configured(vision_config)
        THEN Create(OpenAI(vision_config),
                    Get(vision_config, "model", None),
                    <<[role |-> "system", content |-> <<"You are a code generator. Output raw HTML/JS only.">>],
                      [role |-> "user", content |-> viz_prompt(context, expl, full_context)]>>)
        ELSE Respond(401, [error |-> "Vision API configuration missing. Please configure settings."])

\* analyze, from the visualization call's return to its end.
analyze_visualized(expl, reply) ==
    IF reply.raised # ""
    THEN ExceptHandler(reply.raised)
    ELSE Respond(200, [explanation |-> expl,
                       visualization |-> analyze_cleanup(reply.content).text])

\* convert_format, from its entry to the conversion call.
convert_begin(data) ==
    LET content == Get(data, "content", <<>>)
        target_format == Get(data, "targetFormat", "tex")
        reasoning_config == Get(data, "reasoningConfig", EmptyDict)
    IN  IF content = <<>>
        THEN Respond(400, [error |-> "No content provided"])
        ELSE IF Configured(reasoning_config)
        THEN Create(OpenAI(reasoning_config),
                    Get(reasoning_config, "model", None),
                    <<[role |-> "system", content |-> <<"You are a document format converter.">>],
                      [role |-> "user", content |-> convert_prompt(target_format, content)]>>)
        ELSE Respond(401, [error |-> "Reasoning API configuration missing. Please configure settings."])

\* convert_format, from the conversion call's return to its end.
convert_converted(reply) ==
    IF reply.raised # ""
    THEN ExceptHandler(reply.raised)
    ELSE LET converted == convert_cleanup(reply.content)
         IN  IF converted.raised # ""
             THEN ExceptHandler(converted.raised)
             ELSE Respond(200, [converted |-> converted.text])

\* ocr, from its entry to the transcription call.
ocr_begin(data) ==
    LET image_data == Get(data, "image", <<>>)
        vision_config == Get(data, "visionConfig", EmptyDict)
        previous_context == Get(data, "previousContext", <<>>)
        next_context == Get(data, "nextContext", <<>>)
    IN  IF image_data = <<>>
        THEN Respond(400, [error |-> "No image provided"])
        ELSE IF Configured(vision_config)
        THEN [kind |-> "create",
              call |-> [api_key |-> OpenAI(vision_config).api_key,
                        base_url |-> OpenAI(vision_config).base_url,
                        model |-> Get(vision_config, "model", None),
                        messages |->
                          <<[role |-> "user",
                             content |->
                               <<[type |-> "text",
                                  text |-> system_prompt(previous_context, next_context)],
                                 [type |-> "image_url", url |-> image_data]>>]>>,
                        max_tokens |-> MaxTokens]]
        ELSE Respond(401, [error |-> "Vision API configuration missing. Please configure settings."])

\* ocr, from the transcription call's return to its end.
ocr_transcribed(reply) ==
    IF reply.raised # ""
    THEN ExceptHandler(reply.raised)
    ELSE Respond(200, [latex |-> ocr_cleanup(reply.content).text])

----------------------------------------------------------------------------
(* Requests                                                                *)

\* A key of the JSON body: left out, or given with a value.
Absent(blank) == [has |-> FALSE, val |-> blank]
Given(v) == [has |-> TRUE, val |-> v]
Entry(k, o) == IF o.has THEN (k :> o.val) ELSE EmptyDict

ConfigA == [apiKey |-> "key-A", baseUrl |-> "https://a.example/v1", model |-> "model-A"]
ConfigB == [apiKey |-> "key-B", baseUrl |-> "https://b.example/v1", model |-> "model-B"]
\* A usable block that names neither baseUrl nor model.
ConfigKeyOnly == [apiKey |-> "key-C"]
ConfigEmptyKey == [apiKey |-> "", baseUrl |-> "https://a.example/v1", model |-> "model-A"]
ConfigNoKey == [baseUrl |-> "https://a.example/v1", model |-> "model-A"]

UsableConfigs == {Given(ConfigA), Given(ConfigB)}
AnyConfig ==
    UsableConfigs \cup
        {Absent(EmptyDict), Given(EmptyDict), Given(ConfigEmptyKey),
         Given(ConfigNoKey), Given(ConfigKeyOnly)}

AnyText(v) == {Absent(<<>>), Given(<<>>), Given(v)}
AnyContext == {Absent(<<>>), Given(<<"p", "q">>), Given(<<" ">>)}
AnyFormat == {Absent(""), Given("tex"), Given("md")}

AnalyzeRequests(contexts, full_contexts, reasoning_configs, vision_configs) ==
    { [route |-> "/api/analyze",
       json |-> Entry("context", c) @@ Entry("fullContext", f)
                  @@ Entry("reasoningConfig", rc) @@ Entry("visionConfig", vc)] :
        c \in contexts, f \in full_contexts,
        rc \in reasoning_configs, vc \in vision_configs }

ConvertRequests(contents, formats, reasoning_configs) ==
    { [route |-> "/api/convert",
       json |-> Entry("content", c) @@ Entry("targetFormat", t)
                  @@ Entry("reasoningConfig", rc)] :
        c \in contents, t \in formats, rc \in reasoning_configs }

OcrRequests(images, vision_configs, previous_contexts, next_contexts) ==
    { [route |-> "/api/ocr",
       json |-> Entry("image", i) @@ Entry("visionConfig", vc)
                  @@ Entry("previousContext", p) @@ Entry("nextContext", n)] :
        i \in images, vc \in vision_configs,
        p \in previous_contexts, n \in next_contexts }

\* Every shape of request: each required input and each config block absent,
\* empty or filled.
AllRequests ==
    AnalyzeRequests(AnyText(<<"E", "=", "m", "c">>),
                    {Absent(<<>>), Given(<<"d", "o", "c">>)}, AnyConfig, AnyConfig)
    \cup ConvertRequests(AnyText(<<"#", " ", "T">>), AnyFormat, AnyConfig)
    \cup OcrRequests(AnyText(<<"d", "a", "t", "a", ":">>), AnyConfig,
                     AnyContext, AnyContext)

\* Requests that pass validation, with the two roles configured apart or
\* alike.
ValidRequests ==
    AnalyzeRequests({Given(<<"E", "=", "m", "c">>)}, {Given(<<"d", "o", "c">>)},
                    UsableConfigs, UsableConfigs)
    \cup ConvertRequests({Given(<<"#", " ", "T">>)}, {Given("tex")}, UsableConfigs)
    \cup OcrRequests({Given(<<"d", "a", "t", "a", ":">>)}, UsableConfigs,
                     {Absent(<<>>)}, {Absent(<<>>)})

\* One request per route, fully configured.
CleanRequests ==
    AnalyzeRequests({Given(<<"E", "=", "m", "c">>)}, {Given(<<"d", "o", "c">>)},
                    {Given(ConfigA)}, {Given(ConfigB)})
    \cup ConvertRequests({Given(<<"#", " ", "T">>)}, {Given("md")}, {Given(ConfigA)})
    \cup OcrRequests({Given(<<"d", "a", "t", "a", ":">>)}, {Given(ConfigB)},
                     {Absent(<<>>)}, {Absent(<<>>)})

----------------------------------------------------------------------------
(* The remote model                                                        *)

Throws(e) == [raised |-> e, content |-> <<>>]
Returns(c) == [raised |-> "", content |-> c]

Body == <<"<", "d", "i", "v", "/", ">">>

\* A handful of completions: bare, padded, fenced with and without a
\* newline after the tag, empty.
SomeCompletions ==
    { <<"x">>,
      <<" ", "x", "\n">>,
      <<>>,
      FenceHtml \o <<"\n">> \o Body \o <<"\n">> \o Fence,
      FenceLatex \o <<"\n", "x", "\n">> \o Fence,
      FenceLatex \o <<" ", "x">> \o Fence,
      FenceMarkdown }

SomeReplies ==
    {Throws("Connection error.")} \cup {Returns(c) : c \in SomeCompletions}

\* Two completions that tell two requests apart.
FewReplies ==
    {Throws("Connection error."), Returns(<<"y">>), Returns(<<" ", "z">>)}

\* The pieces completions are put together from.
Segments ==
    {Fence, FenceHtml, FenceLatex, FenceMarkdown, <<"\n">>, <<" ">>, Body}

RECURSIVE TextsOf(_)
TextsOf(n) ==
    IF n = 0 THEN {<<>>}
    ELSE LET shorter == TextsOf(n - 1)
         IN  shorter \cup {t \o s : t \in shorter, s \in Segments}

\* Every completion of at most MaxSegs segments.
SegCompletions == TextsOf(MaxSegs)
SegReplies == {Returns(c) : c \in SegCompletions}

----------------------------------------------------------------------------
(* The state machine                                                       *)

NoRequest == [route |-> "", json |-> EmptyDict]
NoResponse == [status |-> 0, json |-> EmptyDict]

Init ==
    /\ request = [r \in Requests |-> NoRequest]
    /\ pc = [r \in Requests |-> "new"]
    /\ explanation = [r \in Requests |-> <<>>]
    /\ calls = [r \in Requests |-> <<>>]
    /\ replies = [r \in Requests |-> <<>>]
    /\ response = [r \in Requests |-> NoResponse]

\* A mutant of request_json: one request object shared by all workers.
request_json_shared(r) ==
    IF pc[1] # "new" THEN request[1].json ELSE request[r].json

\* data = request.json, of the worker's own request context.
request_json(r) == request[r].json

\* The handler of r goes on as step says: it waits for the model, or returns.
Take(r, step, waiting) ==
    IF step.kind = "create"
    THEN /\ calls' = [calls EXCEPT ![r] = Append(@, step.call)]
         /\ pc' = [pc EXCEPT ![r] = waiting]
         /\ UNCHANGED response
    ELSE /\ response' = [response EXCEPT ![r] =
                            [status |-> step.status, json |-> step.json]]
         /\ pc' = [pc EXCEPT ![r] = "returned"]
         /\ UNCHANGED calls

\* A client posts req.
Submit(r, req) ==
    /\ pc[r] = "new"
    /\ request' = [request EXCEPT ![r] = req]
    /\ pc' = [pc EXCEPT ![r] = "received"]
    /\ UNCHANGED <<explanation, calls, replies, response>>

AnalyzeBegin(r) ==
    /\ pc[r] = "received"
    /\ request[r].route = "/api/analyze"
    /\ Take(r, analyze_begin(request_json(r)), "explaining")
    /\ UNCHANGED <<request, explanation, replies>>

ExplanationReturns(r, answers) ==
    /\ pc[r] = "explaining"
    /\ \E reply \in answers :
        /\ replies' = [replies EXCEPT ![r] = Append(@, reply)]
        /\ explanation' = [explanation EXCEPT ![r] =
                              IF reply.raised = "" THEN Strip(reply.content) ELSE @]
        /\ Take(r, analyze_explained(request_json(r), reply), "visualizing")
        /\ UNCHANGED request

VisualizationReturns(r, answers) ==
    /\ pc[r] = "visualizing"
    /\ \E reply \in answers :
        /\ replies' = [replies EXCEPT ![r] = Append(@, reply)]
        /\ Take(r, analyze_visualized(explanation[r], reply), "returned")
        /\ UNCHANGED <<request, explanation>>

ConvertBegin(r) ==
    /\ pc[r] = "received"
    /\ request[r].route = "/api/convert"
    /\ Take(r, convert_begin(request_json(r)), "converting")
    /\ UNCHANGED <<request, explanation, replies>>

ConversionReturns(r, answers) ==
    /\ pc[r] = "converting"
    /\ \E reply \in answers :
        /\ replies' = [replies EXCEPT ![r] = Append(@, reply)]
        /\ Take(r, convert_converted(reply), "returned")
        /\ UNCHANGED <<request, explanation>>

OcrBegin(r) ==
    /\ pc[r] = "received"
    /\ request[r].route = "/api/ocr"
    /\ Take(r, ocr_begin(request_json(r)), "transcribing")
    /\ UNCHANGED <<request, explanation, replies>>

TranscriptionReturns(r, answers) ==
    /\ pc[r] = "transcribing"
    /\ \E reply \in answers :
        /\ replies' = [replies EXCEPT ![r] = Append(@, reply)]
        /\ Take(r, ocr_transcribed(reply), "returned")
        /\ UNCHANGED <<request, explanation>>

\* Concurrent workers, one per request.
Next ==
    \E r \in Requests :
        \/ \E req \in ValidRequests : Submit(r, req)
        \/ AnalyzeBegin(r)
        \/ ConvertBegin(r)
        \/ OcrBegin(r)
        \/ ExplanationReturns(r, FewReplies)
        \/ VisualizationReturns(r, FewReplies)
        \/ ConversionReturns(r, FewReplies)
        \/ TranscriptionReturns(r, FewReplies)

Spec == Init /\ [][Next]_vars

\* One request alone, of every shape.
NextOne ==
    \/ \E req \in AllRequests : Submit(1, req)
    \/ AnalyzeBegin(1)
    \/ ConvertBegin(1)
    \/ OcrBegin(1)
    \/ ExplanationReturns(1, SomeReplies)
    \/ VisualizationReturns(1, SomeReplies)
    \/ ConversionReturns(1, SomeReplies)
    \/ TranscriptionReturns(1, SomeReplies)

SpecOne == Init /\ [][NextOne]_vars

\* One well-formed request alone, its last completion of every make.
NextClean ==
    \/ \E req \in CleanRequests : Submit(1, req)
    \/ AnalyzeBegin(1)
    \/ ConvertBegin(1)
    \/ OcrBegin(1)
    \/ ExplanationReturns(1, SomeReplies)
    \/ VisualizationReturns(1, SegReplies)
    \/ ConversionReturns(1, SegReplies)
    \/ TranscriptionReturns(1, SegReplies)

SpecClean == Init /\ [][NextClean]_vars

----------------------------------------------------------------------------
(* What the claims speak of                                                *)

Data(r) == request[r].json
Route(r) == request[r].route
Posted(r) == pc[r] # "new"
Returned(r) == pc[r] = "returned"

\* The key of the input each route requires.
InputKey(route) ==
    CASE route = "/api/analyze" -> "context"
      [] route = "/api/convert" -> "content"
      [] OTHER -> "image"

\* The required input is absent or empty.
InputMissing(r) == Get(Data(r), InputKey(Route(r)), <<>>) = <<>>

\* The config keys of the roles a route needs, in the order of its stages.
RolesOf(route) ==
    CASE route = "/api/analyze" -> <<"reasoningConfig", "visionConfig">>
      [] route = "/api/convert" -> <<"reasoningConfig">>
      [] OTHER -> <<"visionConfig">>

\* The block of a role is absent, or its apiKey is absent or empty.
KeyMissing(data, role) ==
    \/ role \notin DOMAIN data
    \/ "apiKey" \notin DOMAIN data[role]
    \/ data[role]["apiKey"] = ""

SomeKeyMissing(r) ==
    \E i \in 1..Len(RolesOf(Route(r))) : KeyMissing(Data(r), RolesOf(Route(r))[i])

ErrorOnly(r) == DOMAIN response[r].json = {"error"}

\* y is x without its leading and trailing whitespace.
IsTrimOf(y, x) ==
    /\ y = <<>> \/ (y[1] \notin Whitespace /\ y[Len(y)] \notin Whitespace)
    /\ \E i \in 0..(Len(x) - Len(y)) :
          /\ SubSeq(x, i + 1, i + Len(y)) = y
          /\ \A k \in 1..i : x[k] \in Whitespace
          /\ \A k \in (i + Len(y) + 1)..Len(x) : x[k] \in Whitespace

HasFence(x) == Contains(x, Fence)

\* The user prompt of the visualization call of r.
VizPromptOf(r) == calls[r][2].messages[2].content

\* The text part of the transcription call of r.
OcrPromptOf(r) == calls[r][1].messages[1].content[1].text

\* The text the last stage of r's pipeline got from the model.
LastCompletion(r) == replies[r][Len(replies[r])].content

\* Every call of r has returned a completion.
AllCompleted(r) ==
    /\ Len(replies[r]) = Len(RolesOf(Route(r)))
    /\ \A i \in 1..Len(replies[r]) : replies[r][i].raised = ""

\* The payload the last stage of r's pipeline hands back.
Payload(r) ==
    CASE Route(r) = "/api/analyze" -> response[r].json.visualization
      [] Route(r) = "/api/convert" -> response[r].json.converted
      [] OTHER -> response[r].json.latex

\* The cleanup of r's pipeline.
CleanupOf(r, x) ==
    CASE Route(r) = "/api/analyze" -> analyze_cleanup(x)
      [] Route(r) = "/api/convert" -> convert_cleanup(x)
      [] OTHER -> ocr_cleanup(x)

\* The tagged openers r's pipeline knows.
TagsOf(r) ==
    CASE Route(r) = "/api/analyze" -> {FenceHtml}
      [] Route(r) = "/api/convert" -> {FenceLatex, FenceMarkdown}
      [] OTHER -> {FenceLatex}

\* The four-step contract: one tagged opener, else one bare marker; one
\* closing marker; trim.
StripWrapper(x, tags) ==
    LET opened == IF \E t \in tags : StartsWith(x, t)
                  THEN DropFirst(x, Len(CHOOSE t \in tags : StartsWith(x, t)))
                  ELSE IF StartsWith(x, Fence) THEN DropFirst(x, 3) ELSE x
        closed == IF EndsWith(opened, Fence) THEN DropLast(opened, 3) ELSE opened
    IN  CHOOSE y \in {SubSeq(closed, i, j) : i \in 1..(Len(closed) + 1), j \in 0..Len(closed)} :
            IsTrimOf(y, closed)

----------------------------------------------------------------------------
(* The claims                                                              *)

\* C1: a request whose needed config block lacks a usable apiKey makes no
\* model call at all and is answered with the 401 config-missing error.
\* (Stated for requests whose required input is there; C2 covers the rest.)
C1_NoCallWithoutConfig ==
    \A r \in Requests :
        (Posted(r) /\ ~InputMissing(r) /\ SomeKeyMissing(r)) =>
            /\ calls[r] = <<>>
            /\ Returned(r) => (response[r].status = 401 /\ ErrorOnly(r))

\* C2: a request whose required input is absent or empty is answered 400,
\* whatever its config blocks hold, and makes no model call.
C2_ValidationFirst ==
    \A r \in Requests :
        (Posted(r) /\ InputMissing(r)) =>
            /\ calls[r] = <<>>
            /\ pc[r] \in {"received", "returned"}
            /\ Returned(r) => (response[r].status = 400 /\ ErrorOnly(r))

\* C2 witness: a request lacking both its input and its configs got 400.
C2_Witness ==
    \E r \in Requests :
        /\ Returned(r) /\ InputMissing(r) /\ SomeKeyMissing(r)
        /\ DOMAIN Data(r) = {}
        /\ response[r].status = 400

\* C3: fail-fast, no partial result.  A raised call is the last call of its
\* request and ends it; an error response holds the error field alone, with
\* status 400, 401 or 500; a success response has its pipeline's shape and
\* comes only after every stage succeeded.
C3_FailFast ==
    \A r \in Requests :
        /\ \A i \in 1..Len(replies[r]) :
              replies[r][i].raised # "" =>
                  (Len(calls[r]) = i /\ Returned(r) /\ response[r].status = 500)
        /\ Returned(r) =>
              /\ Len(calls[r]) = Len(replies[r])
              /\ response[r].status \in {200, 400, 401, 500}
              /\ response[r].status # 200 => ErrorOnly(r)
              /\ response[r].status = 200 =>
                    /\ AllCompleted(r)
                    /\ ~InputMissing(r) /\ ~SomeKeyMissing(r)
                    /\ CleanupOf(r, LastCompletion(r)).raised = ""
                    /\ DOMAIN response[r].json =
                          (CASE Route(r) = "/api/analyze" -> {"explanation", "visualization"}
                             [] Route(r) = "/api/convert" -> {"converted"}
                             [] OTHER -> {"latex"})
              /\ (~AllCompleted(r) \/ CleanupOf(r, LastCompletion(r)).raised # "") =>
                    ErrorOnly(r)

\* C3 witness: an analyze whose explanation came back and whose
\* visualization call raised.
C3_Witness ==
    \E r \in Requests :
        /\ Returned(r) /\ Route(r) = "/api/analyze"
        /\ Len(replies[r]) = 2
        /\ replies[r][1].raised = "" /\ replies[r][1].content # <<>>
        /\ replies[r][2].raised # ""
        /\ response[r].status = 500 /\ ErrorOnly(r)

\* C4: the visualization call is issued only once the explanation call has
\* returned, and its prompt holds the trimmed explanation, which is the
\* explanation the response gives.
C4_Chaining ==
    \A r \in Requests :
        Route(r) = "/api/analyze" =>
            /\ Len(calls[r]) <= Len(replies[r]) + 1
            /\ Len(calls[r]) = 2 =>
                  /\ replies[r][1].raised = ""
                  /\ \E e \in {explanation[r]} :
                        /\ IsTrimOf(e, replies[r][1].content)
                        /\ Contains(VizPromptOf(r), e)
                        /\ (Returned(r) /\ response[r].status = 200) =>
                              response[r].json.explanation = e

\* C4 witness: an analyze answered 200 whose explanation completion was
\* padded with whitespace.
C4_Witness ==
    \E r \in Requests :
        /\ Returned(r) /\ Route(r) = "/api/analyze" /\ response[r].status = 200
        /\ replies[r][1].content = <<" ", "x", "\n">>
        /\ response[r].json.explanation = <<"x">>

\* C5: every call of a request carries the apiKey, baseUrl and model of that
\* request's own block of the role its stage needs, and the text of that
\* request; its response gives the explanation its own call returned.
C5_OwnCredentials ==
    \A r \in Requests :
        /\ \A i \in 1..Len(calls[r]) :
              LET config == Get(Data(r), RolesOf(Route(r))[i], EmptyDict) IN
              /\ calls[r][i].api_key = Get(config, "apiKey", None)
              /\ calls[r][i].base_url = Get(config, "baseUrl", None)
              /\ calls[r][i].model = Get(config, "model", None)
        /\ (Route(r) = "/api/analyze" /\ Len(calls[r]) >= 1) =>
              Contains(calls[r][1].messages[2].content, Data(r).context)
        /\ (Route(r) = "/api/analyze" /\ Returned(r) /\ response[r].status = 200) =>
              IsTrimOf(response[r].json.explanation, replies[r][1].content)

\* C5 witness: two requests with different credentials, answered
\* differently, both waiting for the model at once.
C5_Witness ==
    \E r1, r2 \in Requests :
        /\ r1 # r2
        /\ pc[r1] = "visualizing" /\ pc[r2] = "visualizing"
        /\ calls[r1][2].api_key # calls[r2][2].api_key
        /\ calls[r1][1].api_key # calls[r1][2].api_key
        /\ replies[r1][1].content # replies[r2][1].content

\* C6: each pipeline's cleanup, applied to its own output, gives that output
\* again.
C6_Idempotent ==
    \A r \in Requests :
        (Returned(r) /\ response[r].status = 200) =>
            CleanupOf(r, Payload(r)) = Cleaned(Payload(r))

\* C7: each pipeline's cleanup returns what the four-step contract gives:
\* at most one leading marker goes, and the payload comes back trimmed.
\* (Stated where the cleanup returns at all, and for completions with no
\* whitespace around them, where the order of trimming cannot matter.)
C7_Contract ==
    \A r \in Requests :
        (/\ Returned(r) /\ AllCompleted(r) /\ response[r].status = 200
         /\ IsTrimOf(LastCompletion(r), LastCompletion(r))) =>
            Payload(r) = StripWrapper(LastCompletion(r), TagsOf(r))

\* C8: a completion without a fence marker comes back trimmed and otherwise
\* as it was.
C8_Unfenced ==
    \A r \in Requests :
        (Returned(r) /\ AllCompleted(r)) =>
            /\ ~HasFence(LastCompletion(r)) =>
                  /\ response[r].status = 200
                  /\ IsTrimOf(Payload(r), LastCompletion(r))
            /\ (Route(r) = "/api/analyze" /\ ~HasFence(replies[r][1].content)) =>
                  /\ response[r].status = 200
                  /\ IsTrimOf(response[r].json.explanation, replies[r][1].content)

\* C8 witness: a convert whose unfenced completion had whitespace at both
\* ends and inside.
C8_Witness ==
    \E r \in Requests :
        /\ Returned(r) /\ Route(r) = "/api/convert" /\ AllCompleted(r)
        /\ LastCompletion(r) = <<" ">> \o Body \o <<"\n">> \o Body \o <<"\n">>
        /\ Payload(r) = Body \o <<"\n">> \o Body

\* C9: the ocr prompt holds the previous-context block exactly when
\* previousContext is non-empty and the next-context block exactly when
\* nextContext is, the previous block first; with both empty it is the base
\* text alone.
C9_Stitching ==
    \A r \in Requests :
        (Route(r) = "/api/ocr" /\ Len(calls[r]) >= 1) =>
            LET previous_context == Get(Data(r), "previousContext", <<>>)
                next_context == Get(Data(r), "nextContext", <<>>)
                prompt == OcrPromptOf(r)
            IN  /\ StartsWith(prompt, system_prompt_base)
                /\ Contains(prompt, previous_block(previous_context))
                      <=> previous_context # <<>>
                /\ Contains(prompt, next_block(next_context))
                      <=> next_context # <<>>
                /\ (previous_context # <<>> /\ next_context # <<>>) =>
                      Find(prompt, previous_block(previous_context))
                          < Find(prompt, next_block(next_context))
                /\ Len(prompt) =
                      Len(system_prompt_base)
                        + (IF previous_context # <<>>
                           THEN Len(previous_block(previous_context)) ELSE 0)
                        + (IF next_context # <<>>
                           THEN Len(next_block(next_context)) ELSE 0)

\* C9 witness: an ocr call with a whitespace-only previousContext and no
\* nextContext.
C9_Witness ==
    \E r \in Requests :
        /\ Route(r) = "/api/ocr" /\ Len(calls[r]) = 1
        /\ Get(Data(r), "previousContext", <<>>) = <<" ">>
        /\ "nextContext" \notin DOMAIN Data(r)
        /\ Contains(OcrPromptOf(r), previous_block(<<" ">>))

\* C10: a convert whose model call returned a completion is answered with
\* {converted}, never with an error.
C10_CleanupTotal ==
    \A r \in Requests :
        (Route(r) = "/api/convert" /\ Returned(r) /\ AllCompleted(r)) =>
            /\ response[r].status = 200
            /\ DOMAIN response[r].json = {"converted"}

============================================================================
